---- MODULE Spec2Model ----
(***************************************************************************)
(* The quiz client of src/App.tsx as a state machine: the App component's  *)
(* state, the local state of CategorySelectionScreen and TestScreen, the   *)
(* one-second interval of the countdown and the three asynchronous calls   *)
(* (/categories, /start-test, /submit-test), each with the request in      *)
(* flight and the response the handler resumes on.                         *)
(*                                                                         *)
(* Spec composes the client with a server that may answer anything of the  *)
(* declared response types; SpecBackend composes it with the backend as    *)
(* the repository documents it (the backend's code is not in src/).        *)
(***************************************************************************)
EXTENDS Integers, Sequences, FiniteSets, TLC

\* Largest timeLimitSeconds the unconstrained server returns.
MaxTime == 3

\* JavaScript null.
Null == [null |-> TRUE]

\* An asynchronous call that is not running.
Idle == [pc |-> "idle"]

(***************************************************************************)
(* Data of the declared types                                              *)
(***************************************************************************)

\* The Category list /categories returns (ids as in the comment of handleStartTest).
Categories == << [id |-> "verbal-logic"], [id |-> "memory"] >>

\* The question bank the server draws from: Question records with distinct ids.
QuestionBank ==
    { [id |-> 7,  category |-> "verbal-logic", options |-> <<"a", "b">>],
      [id |-> 10, category |-> "memory",       options |-> <<"a", "b", "c">>] }

\* The Analysis object of a successful /submit-test response.
SomeAnalysis == [title |-> "t", overall_summary |-> "s"]

\* All sequences without repetition over the set S (of any length, <<>> included).
RECURSIVE Arrangements(_)
Arrangements(S) ==
    {<<>>} \cup UNION { { <<x>> \o rest : rest \in Arrangements(S \ {x}) } : x \in S }

Range(s) == { s[i] : i \in DOMAIN s }

(***************************************************************************)
(* Number.prototype.toString and parseInt, on decimal strings modelled as  *)
(* sequences of one-character strings.                                     *)
(***************************************************************************)
DigitChars == <<"0", "1", "2", "3", "4", "5", "6", "7", "8", "9">>

\* What parseInt returns when the string does not start with a digit.
NaN == [nan |-> TRUE]

RECURSIVE toString(_)
toString(n) ==
    IF n < 10 THEN << DigitChars[n + 1] >>
    ELSE toString(n \div 10) \o << DigitChars[(n % 10) + 1] >>

DigitValue(c) == (CHOOSE d \in 1..10 : DigitChars[d] = c) - 1

IsDigit(c) == \E d \in 1..10 : DigitChars[d] = c

\* The value of the longest prefix of s made of digits, given the value acc read so far.
RECURSIVE ParseDigits(_, _)
ParseDigits(s, acc) ==
    IF s = <<>> \/ ~IsDigit(Head(s)) THEN acc
    ELSE ParseDigits(Tail(s), acc * 10 + DigitValue(Head(s)))

parseInt(s) ==
    IF s = <<>> \/ ~IsDigit(Head(s)) THEN NaN ELSE ParseDigits(s, 0)

(***************************************************************************)
(* State                                                                   *)
(***************************************************************************)
VARIABLES
    screen,                 \* App: 'selection' | 'test' | 'loading' | 'results'
    quizQuestions,          \* App: Question[]
    testResults,            \* App: TestResults | null
    analysis,               \* App: Analysis | null
    error,                  \* App: [message] | null
    allCategories,          \* App: Category[]
    timeLimit,              \* App: number
    selected,               \* CategorySelectionScreen: Set<string>
    testScreen,             \* TestScreen: "unmounted" | "mounting" | "mounted" | "crashed"
    currentQuestionIndex,   \* TestScreen: number (0-based)
    userAnswers,            \* TestScreen: UserAnswer, keyed by the id's string
    timeLeft,               \* TestScreen: number
    timer,                  \* TestScreen: TRUE while the setInterval timer is set
    picked,                 \* history: question id -> option last clicked in this test
    submittedBy,            \* history: what called onSubmit: "none" | "timeout" | "click"
    previousTest,           \* history: [timeLimit] of the test before this one, or null
    categoriesCall,         \* fetchCategories: Idle, fetching or holding the response
    startTestCall,          \* handleStartTest: Idle, fetching or holding the response
    submitTestCall          \* handleSubmitTest: Idle, fetching or holding the response

appVars == <<screen, quizQuestions, testResults, analysis, error, allCategories, timeLimit>>

testVars == <<testScreen, currentQuestionIndex, userAnswers, timeLeft, timer>>

histVars == <<picked, submittedBy, previousTest>>

callVars == <<categoriesCall, startTestCall, submitTestCall>>

vars == <<appVars, selected, testVars, histVars, callVars>>

\* The empty object {} / the empty history.
EmptyObject == [k \in {} |-> 0]

\* { ...obj, [key]: value }
Assign(obj, key, value) ==
    [k \in DOMAIN obj \cup {key} |-> IF k = key THEN value ELSE obj[k]]

Init ==
    /\ screen = "selection"
    /\ quizQuestions = <<>>
    /\ testResults = Null
    /\ analysis = Null
    /\ error = Null
    /\ allCategories = <<>>
    /\ timeLimit = 0
    /\ selected = {}
    /\ testScreen = "unmounted"
    /\ currentQuestionIndex = 0
    /\ userAnswers = EmptyObject
    /\ timeLeft = 0
    /\ timer = FALSE
    /\ picked = EmptyObject
    /\ submittedBy = "none"
    /\ previousTest = Null
    /\ categoriesCall = [pc |-> "fetch"]
    /\ startTestCall = Idle
    /\ submitTestCall = Idle


(***************************************************************************)
(* App: what is on the screen                                              *)
(***************************************************************************)

\* renderScreen: the component the App shows.
renderScreen ==
    CASE screen = "selection" -> "CategorySelectionScreen"
      [] screen = "test"      -> "TestScreen"
      [] screen = "loading"   -> "LoadingScreen"
      [] screen = "results"   -> IF testResults = Null THEN "LoadingScreen"
                                 ELSE "ResultsScreen"

\* An uncaught error in a render unmounts the whole tree: no handler runs any more.
Alive == testScreen # "crashed"

(***************************************************************************)
(* fetchCategories (the App's mount effect; the request is sent in Init)   *)
(***************************************************************************)

\* err.detail || fallback
DetailOr(err, fallback) ==
    IF "detail" \in DOMAIN err /\ err.detail # "" THEN err.detail ELSE fallback

\* The Error a handler's try block ends with when the response is not a success: the
\* non-OK branch throws new Error(err.detail || fallback), a rejected await throws r.e.
Thrown(r, fallback) ==
    IF r.kind = "error" THEN [message |-> DetailOr(r.json, fallback)] ELSE r.e

\* catch (e): e.message for an Error, the fixed text otherwise.
CatchMessage(e, unknown) ==
    IF "message" \in DOMAIN e THEN [message |-> e.message] ELSE [message |-> unknown]

fetchCategoriesResume ==
    /\ Alive
    /\ categoriesCall.pc = "response"
    /\ categoriesCall' = Idle
    /\ LET r == categoriesCall.response IN
       IF r.kind = "ok"
       THEN /\ allCategories' = r.json
            /\ UNCHANGED error
       ELSE /\ error' = CatchMessage(IF r.kind = "error"
                                     THEN [message |-> "Failed to fetch categories"]
                                     ELSE r.e,
                                     "Failed to load categories.")
            /\ UNCHANGED allCategories
    /\ UNCHANGED <<screen, quizQuestions, testResults, analysis, timeLimit, selected,
                   testVars, histVars, startTestCall, submitTestCall>>

(***************************************************************************)
(* CategorySelectionScreen                                                 *)
(***************************************************************************)

handleSelect(id) ==
    /\ selected' = IF id \in selected THEN selected \ {id} ELSE selected \cup {id}
    /\ UNCHANGED <<appVars, testVars, histVars, callVars>>

\* A click on a CategoryCard: one card per category of the list.
ClickCategoryCard ==
    /\ Alive
    /\ renderScreen = "CategorySelectionScreen"
    /\ \E i \in DOMAIN allCategories : handleSelect(allCategories[i].id)

\* categories.filter(cat => selected.has(cat.id))
selectedCategories == SelectSeq(allCategories, LAMBDA cat : cat.id \in selected)

\* handleStartTest up to its first await.
handleStartTest(categories) ==
    /\ screen' = "loading"
    /\ error' = Null
    /\ startTestCall' = [pc |-> "fetch",
                         body |-> [categories |-> [i \in DOMAIN categories |-> categories[i].id]]]
    /\ selected' = {}
    /\ UNCHANGED <<quizQuestions, testResults, analysis, allCategories, timeLimit,
                   testVars, histVars, categoriesCall, submitTestCall>>

\* A click on Start Test, which is disabled while nothing is selected.
handleStart ==
    /\ Alive
    /\ renderScreen = "CategorySelectionScreen"
    /\ selected # {}
    /\ handleStartTest(selectedCategories)

(***************************************************************************)
(* TestScreen                                                              *)
(***************************************************************************)

\* Faulty variant of the first render: timeLeft starts as useState(0).
TestScreenMount_ZeroTimeLeft(questions, limit) ==
    /\ timer' = FALSE
    /\ picked' = EmptyObject
    /\ UNCHANGED <<submittedBy, previousTest>>
    /\ IF Len(questions) = 0
       THEN /\ testScreen' = "crashed"
            /\ UNCHANGED <<currentQuestionIndex, userAnswers, timeLeft>>
       ELSE /\ testScreen' = "mounting"
            /\ currentQuestionIndex' = 0
            /\ userAnswers' = EmptyObject
            /\ timeLeft' = 0

\* The first render of a TestScreen: the useState initialisers, and the render itself,
\* which throws on questions[0].category when there is no question.
TestScreenMount(questions, limit) ==
    /\ timer' = FALSE
    /\ picked' = EmptyObject
    /\ UNCHANGED <<submittedBy, previousTest>>
    /\ IF Len(questions) = 0
       THEN /\ testScreen' = "crashed"
            /\ UNCHANGED <<currentQuestionIndex, userAnswers, timeLeft>>
       ELSE /\ testScreen' = "mounting"
            /\ currentQuestionIndex' = 0
            /\ userAnswers' = EmptyObject
            /\ timeLeft' = limit

\* The TestScreen leaves the tree: its state is gone and the cleanup clears the interval.
TestScreenUnmount ==
    /\ testScreen' = "unmounted"
    /\ currentQuestionIndex' = 0
    /\ userAnswers' = EmptyObject
    /\ timeLeft' = 0
    /\ timer' = FALSE

\* Object.entries: integer-like keys in ascending numeric order.
RECURSIVE ObjectEntries(_)
ObjectEntries(obj) ==
    IF DOMAIN obj = {} THEN <<>>
    ELSE LET k == CHOOSE k \in DOMAIN obj : \A j \in DOMAIN obj : parseInt(k) <= parseInt(j)
         IN  << <<k, obj[k]>> >> \o ObjectEntries([j \in DOMAIN obj \ {k} |-> obj[j]])

backendAnswers(answers) ==
    LET entries == ObjectEntries(answers)
    IN  [i \in DOMAIN entries |->
            [questionId |-> parseInt(entries[i][1]), selectedOption |-> entries[i][2]]]

\* handleSubmitTest up to its first await; the App then shows the LoadingScreen,
\* so the TestScreen unmounts.
handleSubmitTest(answers) ==
    /\ screen' = "loading"
    /\ error' = Null
    /\ submitTestCall' = [pc |-> "fetch", body |-> [answers |-> backendAnswers(answers)]]
    /\ TestScreenUnmount
    /\ UNCHANGED <<quizQuestions, testResults, analysis, allCategories, timeLimit,
                   selected, categoriesCall, startTestCall>>

\* History: onSubmit was called by the timeout watcher or by the Submit Answers button.
Submitted(by) ==
    /\ submittedBy' = by
    /\ previousTest' = [timeLimit |-> timeLimit]
    /\ UNCHANGED picked

\* Faulty variant of hook 2's condition: it waits for a timeLeft below 0.
SubmitOnTimeout_BelowZero(t) == t < 0 /\ Len(quizQuestions) > 0

\* Hook 2's condition, for the timeLeft of the render it runs after.
SubmitOnTimeout(t) == t = 0 /\ Len(quizQuestions) > 0

\* The effects of the first render: hook 1 sets timeLeft and the interval, hook 2 follows.
TestScreenEffects ==
    /\ testScreen = "mounting"
    /\ IF SubmitOnTimeout(timeLeft)
       THEN handleSubmitTest(userAnswers) /\ Submitted("timeout")
       ELSE /\ testScreen' = "mounted"
            /\ timeLeft' = timeLimit
            /\ timer' = (timeLimit > 0)
            /\ UNCHANGED <<appVars, selected, currentQuestionIndex, userAnswers, histVars,
                           callVars>>

\* Faulty variant of the interval's updater: it stops one second early.
Countdown_StopsEarly(prevTime) == IF prevTime <= 2 THEN 0 ELSE prevTime - 1

\* The functional update of the interval callback: prevTime => ...
Countdown(prevTime) == IF prevTime <= 1 THEN 0 ELSE prevTime - 1

\* One firing of the interval, the render it causes and hook 2 after that render.
Tick ==
    /\ Alive
    /\ timer
    /\ LET next == Countdown(timeLeft) IN
       IF SubmitOnTimeout(next)
       THEN handleSubmitTest(userAnswers) /\ Submitted("timeout")
       ELSE /\ timeLeft' = next
            /\ timer' = (timeLeft > 1)
            /\ UNCHANGED <<appVars, selected, testScreen, currentQuestionIndex,
                           userAnswers, histVars, callVars>>

currentQuestion == quizQuestions[currentQuestionIndex + 1]

\* Faulty variant of handleAnswerSelect: the answer is stored under the question's position
\* instead of its id.
handleAnswerSelect_KeyByIndex(answerIndex) ==
    /\ userAnswers' = Assign(userAnswers, toString(currentQuestionIndex), answerIndex)
    /\ UNCHANGED <<appVars, selected, testScreen, currentQuestionIndex, timeLeft, timer,
                   callVars>>

handleAnswerSelect(answerIndex) ==
    /\ userAnswers' = Assign(userAnswers, toString(currentQuestion.id), answerIndex)
    /\ UNCHANGED <<appVars, selected, testScreen, currentQuestionIndex, timeLeft, timer,
                   callVars>>

\* A click on an option button: one button per option of the current question.
ClickOption ==
    /\ testScreen = "mounted"
    /\ \E index \in 0..(Len(currentQuestion.options) - 1) :
          /\ handleAnswerSelect(index)
          /\ picked' = Assign(picked, currentQuestion.id, index)
          /\ UNCHANGED <<submittedBy, previousTest>>

\* A click on Next, shown while a later question exists.
handleNext ==
    /\ testScreen = "mounted"
    /\ currentQuestionIndex < Len(quizQuestions) - 1
    /\ currentQuestionIndex' = currentQuestionIndex + 1
    /\ UNCHANGED <<appVars, selected, testScreen, userAnswers, timeLeft, timer, histVars,
                   callVars>>

\* A click on Previous, disabled on the first question.
handlePrev ==
    /\ testScreen = "mounted"
    /\ currentQuestionIndex > 0
    /\ currentQuestionIndex' = currentQuestionIndex - 1
    /\ UNCHANGED <<appVars, selected, testScreen, userAnswers, timeLeft, timer, histVars,
                   callVars>>

\* A click on Submit Answers, shown on the last question.
ClickSubmit ==
    /\ testScreen = "mounted"
    /\ ~(currentQuestionIndex < Len(quizQuestions) - 1)
    /\ handleSubmitTest(userAnswers)
    /\ Submitted("click")

(***************************************************************************)
(* App: the handlers after their awaits                                    *)
(***************************************************************************)

\* Faulty variant of the success path: setTimeLimit is left out.
StartTestSucceeded_KeepsTimeLimit(data) ==
    /\ quizQuestions' = data.questions
    /\ timeLimit' = timeLimit
    /\ testResults' = Null
    /\ analysis' = Null
    /\ screen' = "test"
    /\ TestScreenMount(data.questions, timeLimit)
    /\ UNCHANGED <<error, allCategories, selected>>

\* handleStartTest after a successful response, and the render that follows.
StartTestSucceeded(data) ==
    /\ quizQuestions' = data.questions
    /\ timeLimit' = data.timeLimitSeconds
    /\ testResults' = Null
    /\ analysis' = Null
    /\ screen' = "test"
    /\ TestScreenMount(data.questions, data.timeLimitSeconds)
    /\ UNCHANGED <<error, allCategories, selected>>

\* Faulty variant of the catch block: it goes on to the results screen.
StartTestFailed_ToResults(e) ==
    /\ error' = CatchMessage(e, "An unknown error occurred.")
    /\ screen' = "results"
    /\ UNCHANGED <<quizQuestions, testResults, analysis, allCategories, timeLimit, selected,
                   testVars, histVars>>

\* Faulty variant of the catch block: setError is left out.
StartTestFailed_NoError(e) ==
    /\ screen' = "selection"
    /\ selected' = {}
    /\ UNCHANGED <<error, quizQuestions, testResults, analysis, allCategories, timeLimit,
                   testVars, histVars>>

\* handleStartTest's catch block.
StartTestFailed(e) ==
    /\ error' = CatchMessage(e, "An unknown error occurred.")
    /\ screen' = "selection"
    /\ selected' = {}
    /\ UNCHANGED <<quizQuestions, testResults, analysis, allCategories, timeLimit, testVars,
                   histVars>>

handleStartTestResume ==
    /\ Alive
    /\ startTestCall.pc = "response"
    /\ startTestCall' = Idle
    /\ LET r == startTestCall.response IN
       IF r.kind = "ok"
       THEN StartTestSucceeded(r.json)
       ELSE StartTestFailed(Thrown(r, "Failed to start test"))
    /\ UNCHANGED <<categoriesCall, submitTestCall>>

\* handleSubmitTest after its awaits: try, catch and finally.
handleSubmitTestResume ==
    /\ Alive
    /\ submitTestCall.pc = "response"
    /\ submitTestCall' = Idle
    /\ LET r == submitTestCall.response IN
       IF r.kind = "ok"
       THEN /\ testResults' = r.json.results
            /\ analysis' = r.json.analysis
            /\ UNCHANGED error
       ELSE /\ error' = CatchMessage(Thrown(r, "Failed to submit test"),
                                     "An unknown error occurred while fetching your analysis.")
            /\ UNCHANGED <<testResults, analysis>>
    /\ screen' = "results"
    /\ picked' = EmptyObject
    /\ submittedBy' = "none"
    /\ UNCHANGED <<previousTest, quizQuestions, allCategories, timeLimit, selected, testScreen,
                   currentQuestionIndex, userAnswers, timeLeft, timer,
                   categoriesCall, startTestCall>>

\* Faulty variant of handleTestAgain: it goes straight back to the test, results kept.
handleTestAgain_Retake ==
    /\ screen' = "test"
    /\ TestScreenMount(quizQuestions, timeLimit)
    /\ UNCHANGED <<quizQuestions, testResults, analysis, error, allCategories, timeLimit,
                   selected, callVars>>

handleTestAgain ==
    /\ screen' = "selection"
    /\ quizQuestions' = <<>>
    /\ testResults' = Null
    /\ analysis' = Null
    /\ error' = Null
    /\ selected' = {}
    /\ UNCHANGED <<allCategories, timeLimit, testVars, histVars, callVars>>

\* A click on Test Again, a button of the ResultsScreen.
ClickTestAgain ==
    /\ Alive
    /\ renderScreen = "ResultsScreen"
    /\ handleTestAgain


(***************************************************************************)
(* The server                                                              *)
(***************************************************************************)

\* What a request ends with when it does not succeed: a non-OK response whose JSON body
\* has a detail, an empty detail or none, or a rejected fetch.
FailureResponses ==
    { [kind |-> "error", json |-> [detail |-> "Server error"]],
      [kind |-> "error", json |-> [detail |-> ""]],
      [kind |-> "error", json |-> [status |-> "error"]],
      [kind |-> "throw", e |-> [message |-> "Failed to fetch"]] }

Ok(json) == [kind |-> "ok", json |-> json]

\* GET /categories.
ServerCategories ==
    /\ categoriesCall.pc = "fetch"
    /\ \E r \in {Ok(Categories)} \cup FailureResponses :
          categoriesCall' = [pc |-> "response", response |-> r]
    /\ UNCHANGED <<appVars, selected, testVars, histVars, startTestCall, submitTestCall>>

\* The { questions, timeLimitSeconds } objects of the declared type, within the bounds.
AnyStartTestData ==
    [questions : Arrangements(QuestionBank), timeLimitSeconds : (-1)..MaxTime]

\* TestResults objects of the declared type.
AnyTestResults ==
    { [totalCorrect |-> 1, totalQuestions |-> 2,
       categoryResults |-> [c \in {"memory"} |-> [correct |-> 1, total |-> 2]]],
      [totalCorrect |-> 2, totalQuestions |-> 2,
       categoryResults |-> [c \in {"memory"} |-> [correct |-> 1, total |-> 2]]] }

Respond(call, r) == [pc |-> "response", body |-> call.body, response |-> r]

\* POST /start-test, answered by a server of which only the response types are known.
ServerStartTest ==
    /\ startTestCall.pc = "fetch"
    /\ \E r \in {Ok(d) : d \in AnyStartTestData} \cup FailureResponses :
          startTestCall' = Respond(startTestCall, r)
    /\ UNCHANGED <<appVars, selected, testVars, histVars, categoriesCall, submitTestCall>>

\* POST /submit-test, answered by a server of which only the response types are known.
ServerSubmitTest ==
    /\ submitTestCall.pc = "fetch"
    /\ \E r \in {Ok([results |-> res, analysis |-> SomeAnalysis]) : res \in AnyTestResults}
                \cup FailureResponses :
          submitTestCall' = Respond(submitTestCall, r)
    /\ UNCHANGED <<appVars, selected, testVars, histVars, categoriesCall, startTestCall>>

(***************************************************************************)
(* The backend as documented: a 15-minute test for one category, a         *)
(* 30-minute test for more; questions drawn from the bank of the requested *)
(* categories; answers compared to the answer key and tallied by category. *)
(***************************************************************************)

\* The answer key: question id -> index of the right option.
AnswerKey == (7 :> 1) @@ (10 :> 0)

BackendTimeLimit(categoryIds) ==
    IF Len(categoryIds) = 1 THEN 15 * 60 ELSE 30 * 60

\* Shuffled, sliced selections of the bank's questions of the requested categories.
BackendQuestions(categoryIds) ==
    { qs \in Arrangements({q \in QuestionBank : q.category \in Range(categoryIds)}) :
         qs # <<>> }

BankQuestion(id) == CHOOSE q \in QuestionBank : q.id = id

\* Faulty variant of the tally: every known answer counts towards totalCorrect.
Grade_CountsEveryAnswer(answers) ==
    LET known == {i \in DOMAIN answers : answers[i].questionId \in DOMAIN AnswerKey}
        right == {i \in known : answers[i].selectedOption = AnswerKey[answers[i].questionId]}
        cat(i) == BankQuestion(answers[i].questionId).category
    IN  [totalCorrect |-> Cardinality(known),
         totalQuestions |-> Cardinality(known),
         categoryResults |->
            [c \in {cat(i) : i \in known} |->
                [correct |-> Cardinality({i \in right : cat(i) = c}),
                 total |-> Cardinality({i \in known : cat(i) = c})]]]

\* The tally of the submitted answers.
Grade(answers) ==
    LET known == {i \in DOMAIN answers : answers[i].questionId \in DOMAIN AnswerKey}
        right == {i \in known : answers[i].selectedOption = AnswerKey[answers[i].questionId]}
        cat(i) == BankQuestion(answers[i].questionId).category
    IN  [totalCorrect |-> Cardinality(right),
         totalQuestions |-> Cardinality(known),
         categoryResults |->
            [c \in {cat(i) : i \in known} |->
                [correct |-> Cardinality({i \in right : cat(i) = c}),
                 total |-> Cardinality({i \in known : cat(i) = c})]]]

BackendStartTest ==
    /\ startTestCall.pc = "fetch"
    /\ \E r \in {Ok([questions |-> qs,
                     timeLimitSeconds |-> BackendTimeLimit(startTestCall.body.categories)]) :
                    qs \in BackendQuestions(startTestCall.body.categories)}
                \cup FailureResponses :
          startTestCall' = Respond(startTestCall, r)
    /\ UNCHANGED <<appVars, selected, testVars, histVars, categoriesCall, submitTestCall>>

BackendSubmitTest ==
    /\ submitTestCall.pc = "fetch"
    /\ \E r \in {Ok([results |-> Grade(submitTestCall.body.answers),
                     analysis |-> SomeAnalysis])} \cup FailureResponses :
          submitTestCall' = Respond(submitTestCall, r)
    /\ UNCHANGED <<appVars, selected, testVars, histVars, categoriesCall, startTestCall>>

(***************************************************************************)
(* Specifications                                                          *)
(***************************************************************************)

Client ==
    \/ fetchCategoriesResume
    \/ ClickCategoryCard
    \/ handleStart
    \/ handleStartTestResume
    \/ TestScreenEffects
    \/ Tick
    \/ ClickOption
    \/ handleNext
    \/ handlePrev
    \/ ClickSubmit
    \/ handleSubmitTestResume
    \/ ClickTestAgain

Next ==
    \/ Client
    \/ ServerCategories
    \/ ServerStartTest
    \/ ServerSubmitTest

NextBackend ==
    \/ Client
    \/ ServerCategories
    \/ BackendStartTest
    \/ BackendSubmitTest

\* The client with any server.
Spec == Init /\ [][Next]_vars

\* The client with the documented backend.
SpecBackend == Init /\ [][NextBackend]_vars

\* The interval fires as long as it is set, and effects run after the render.
FairSpec == Spec /\ WF_vars(Tick) /\ WF_vars(TestScreenEffects)


(***************************************************************************)
(* Properties                                                              *)
(***************************************************************************)

\* A TestScreen is in the tree (rendered, its effects run or about to run).
TestShown == testScreen \in {"mounting", "mounted"}

\* C1: the timer never reports negative time: whenever the test screen is shown,
\* timeLeft >= 0, whatever timeLimitSeconds /start-test returned.
TimeLeftNeverNegative == TestShown => timeLeft >= 0

\* The answers of the /submit-test request in flight.
SubmittedAnswers == submitTestCall.body.answers

\* C2: every entry of a /submit-test request names a question of the current test and
\* an index into that question's options; a question the user answered appears exactly
\* once, a question the user did not answer does not appear.
SubmittedAnswersValid ==
    submitTestCall.pc # "idle" =>
        /\ \A i \in DOMAIN SubmittedAnswers :
              \E q \in Range(quizQuestions) :
                 /\ q.id = SubmittedAnswers[i].questionId
                 /\ SubmittedAnswers[i].selectedOption \in 0..(Len(q.options) - 1)
        /\ \A q \in Range(quizQuestions) :
              Cardinality({i \in DOMAIN SubmittedAnswers : SubmittedAnswers[i].questionId = q.id})
                 = IF q.id \in DOMAIN picked THEN 1 ELSE 0

\* A request of a two-question test with one question answered and one left out.
SubmittedOneOfTwo ==
    /\ submitTestCall.pc = "fetch"
    /\ Len(quizQuestions) = 2
    /\ Len(SubmittedAnswers) = 1
    /\ SubmittedAnswers[1].questionId = 10

\* C3: the screen changes only along selection -> loading (start requested),
\* loading -> test (start-test succeeded), loading -> selection (start-test failed),
\* test -> loading (answers submitted), loading -> results (submit-test completed) and
\* results -> selection (Test Again).
ScreenFlow ==
    [][screen' # screen =>
        \/ /\ screen = "selection" /\ screen' = "loading"
           /\ startTestCall.pc = "idle" /\ startTestCall'.pc = "fetch"
        \/ /\ screen = "loading" /\ screen' = "test"
           /\ startTestCall.pc = "response" /\ startTestCall.response.kind = "ok"
        \/ /\ screen = "loading" /\ screen' = "selection"
           /\ startTestCall.pc = "response" /\ startTestCall.response.kind # "ok"
        \/ /\ screen = "test" /\ screen' = "loading"
           /\ submitTestCall.pc = "idle" /\ submitTestCall'.pc = "fetch"
        \/ /\ screen = "loading" /\ screen' = "results"
           /\ submitTestCall.pc = "response"
        \/ /\ screen = "results" /\ screen' = "selection"
           /\ renderScreen = "ResultsScreen"
    ]_vars

\* The results of a second test are on the screen: the whole flow has been walked twice.
SecondResultsShown ==
    /\ renderScreen = "ResultsScreen"
    /\ previousTest # Null
    /\ quizQuestions # <<>>

RECURSIVE SumCorrect(_, _)
SumCorrect(categoryResults, cs) ==
    IF cs = {} THEN 0
    ELSE LET c == CHOOSE c \in cs : TRUE
         IN  categoryResults[c].correct + SumCorrect(categoryResults, cs \ {c})

SubmittedPairs(answers) ==
    { <<answers[i].questionId, answers[i].selectedOption>> : i \in DOMAIN answers }

\* C5: a test with at least one question never rests at timeLeft = 0: the step that
\* brings timeLeft to 0 submits, with no click, exactly the answers selected until then;
\* and with the interval firing, a test started with timeLimit > 0 is eventually submitted.
SubmitOnTimeoutHolds ==
    /\ [](testScreen = "mounted" /\ Len(quizQuestions) > 0 => timeLeft # 0)
    /\ [][submittedBy' = "timeout" /\ submittedBy # "timeout" =>
            /\ TestShown /\ (timeLeft <= 1)
            /\ submitTestCall'.pc = "fetch"
            /\ Len(submitTestCall'.body.answers) = Cardinality(DOMAIN picked)
            /\ SubmittedPairs(submitTestCall'.body.answers)
                  = { <<id, picked[id]>> : id \in DOMAIN picked }
       ]_vars
    /\ ((testScreen = "mounting" /\ timeLimit > 0 /\ Len(quizQuestions) > 0)
            ~> (submitTestCall.pc = "fetch"))

\* The timeout watcher has submitted a test in which an answer had been selected.
TimeoutSubmittedAnAnswer ==
    /\ submittedBy = "timeout"
    /\ submitTestCall.pc = "fetch"
    /\ timeLimit > 0
    /\ Len(SubmittedAnswers) > 0

SubmitFailureShown ==
    (screen = "results" /\ error # Null) => renderScreen = "ResultsScreen"

\* C8: when /start-test fails the app is back on the selection screen with an error
\* message, quizQuestions, timeLimit, testResults and analysis are as they were, and no
\* test screen is shown.
StartFailureGoesBack ==
    [][(startTestCall.pc = "response" /\ startTestCall'.pc = "idle"
           /\ startTestCall.response.kind # "ok") =>
            /\ screen' = "selection"
            /\ error' # Null
            /\ UNCHANGED <<quizQuestions, timeLimit, testResults, analysis>>
            /\ testScreen' = "unmounted"
    ]_vars

\* The selection screen after a failed start of a later test.
BackAfterFailedStart ==
    /\ screen = "selection"
    /\ error = [message |-> "Failed to start test"]
    /\ previousTest # Null
    /\ startTestCall.pc = "idle"

\* C9: a test screen starts with timeLeft equal to the timeLimitSeconds of its own
\* response, no answers and the first question, with no interval left over; an interval
\* only runs while its test screen is shown.
FreshTestScreen ==
    /\ [][testScreen' = "mounting" /\ testScreen # "mounting" =>
            /\ startTestCall.pc = "response"
            /\ timeLeft' = startTestCall.response.json.timeLimitSeconds
            /\ userAnswers' = EmptyObject
            /\ currentQuestionIndex' = 0
            /\ ~timer'
       ]_vars
    /\ [](timer => testScreen = "mounted")

\* A later test with the time limit of the one before it, just started.
SecondTestSameLimit ==
    /\ testScreen = "mounting"
    /\ previousTest = [timeLimit |-> timeLimit]
    /\ timeLimit > 0
    /\ timeLeft = timeLimit

\* C10: while the test screen is on, testResults and analysis are null; the results that
\* come on the screen afterwards are those of the response to the submission just made.
NoOldResultsDuringTest ==
    /\ [](screen = "test" => testResults = Null /\ analysis = Null)
    /\ [][renderScreen' = "ResultsScreen" /\ renderScreen # "ResultsScreen" =>
            /\ submitTestCall.pc = "response"
            /\ submitTestCall.response.kind = "ok"
            /\ testResults' = submitTestCall.response.json.results
            /\ analysis' = submitTestCall.response.json.analysis
       ]_vars

\* A later test is on the screen (the one before it went through the results screen).
LaterTestShown ==
    /\ screen = "test"
    /\ testScreen = "mounted"
    /\ previousTest # Null


\* C11: the countdown goes down by exactly 1 per tick and stops at 0: while a test is
\* shown timeLeft never increases; a tick at timeLeft > 1 leaves timeLeft - 1 and a tick at
\* timeLeft <= 1 leaves 0; a timeLeft of 0 stays 0 and no interval is left running at 0;
\* with a timeLimit of 0 no interval is set and timeLeft never changes.
CountdownByOne ==
    /\ [][TestShown /\ TestShown' => timeLeft' <= timeLeft]_vars
    /\ [][Tick => IF timeLeft > 1
                  THEN TestShown' /\ timeLeft' = timeLeft - 1
                  ELSE timeLeft' = 0 /\ ~timer']_vars
    /\ [][testScreen = "mounted" /\ TestShown' /\ timeLeft' # timeLeft =>
            timer /\ timeLeft > 1 /\ timeLeft' = timeLeft - 1]_vars
    /\ [][submittedBy' = "timeout" /\ submittedBy # "timeout" /\ testScreen = "mounted" =>
            timer /\ timeLeft <= 1]_vars
    /\ [][TestShown /\ TestShown' /\ timeLeft = 0 => timeLeft' = 0]_vars
    /\ [](timer => timeLeft > 0)
    /\ [](TestShown /\ timeLimit = 0 => ~timer)
    /\ [][TestShown /\ TestShown' /\ timeLimit = 0 => timeLeft' = timeLeft]_vars

\* A test of three seconds after two ticks, the interval still set.
TwoTicksDone ==
    /\ testScreen = "mounted"
    /\ timer
    /\ timeLimit = 3
    /\ timeLeft = 1

====
